---- MODULE Spec2Model ----
(***************************************************************************)
(* Model of the streaming loop of the Horizon client, Client.stream        *)
(* (src/clients/horizon/effect.go:456-544), together with the upstream     *)
(* feed it reads from and the caller's context and handler.                *)
(*                                                                         *)
(* Paging tokens are opaque strings in the code.  Here a token is a        *)
(* number: 0 stands for the empty string (or an absent paging_token        *)
(* field) and i > 0 for the token of the i-th record of the upstream       *)
(* sequence.                                                               *)
(***************************************************************************)
EXTENDS Integers, Sequences, FiniteSets

\* Bounds of the model.
MaxFeed == 3   \* records in the upstream sequence
MaxReq == 3    \* HTTP requests (c.HTTP.Do calls) of one run
MaxEmpty == 1  \* "message" frames with empty data sent in one run
MaxStart == 1  \* largest token the caller passes as start cursor

VARIABLES
    feed,         \* the upstream record sequence, fixed for the run
    cursor,       \* the cursor *Cursor argument of stream
    baseURL,      \* the baseURL argument of stream: "valid" or "invalid"
    query,        \* query := url.Values{}, the "cursor" entry only
    pc,           \* position of the run in the body of stream
    ret,          \* the value stream returned ("running" until it returns)
    status,       \* status class of the response being read
    openBodies,   \* response bodies opened and not yet closed
    srvNext,      \* index of the next record the server sends on the connection
    frame,        \* scanner.Bytes() after a successful scanner.Scan()
    scanErr,      \* scanner.Err() once scanner.Scan() has returned false
    objectBytes,  \* var objectBytes []byte of the current connection
    cancelled,    \* ctx.Done() is closed
    requests,     \* history: the c.HTTP.Do calls, in order
    delivered,    \* history: the data passed to the handler, in order
    hres,         \* history: what the last handler invocation returned
    connErr,      \* history: the error http.NewRequest / c.HTTP.Do returned
    position,     \* history: start cursor, then token of each delivered record
    cancelAt,     \* history: the run's progress when ctx was cancelled
    nEmpty,       \* "message" frames with empty data sent so far
    family,       \* the record family of a StreamAll* run or of a decoder call
    payloads,     \* the JSON payload of each record of the feed (StreamAll* runs)
    userCalls,    \* history: the records passed to the user's handler
    decIn,        \* the data argument of UnmarshalEffect / UnmarshalOperation
    decOut,       \* what UnmarshalEffect / UnmarshalOperation returned
    row,          \* the history row a server-side Populate is called on
    resource,     \* the resource that Populate filled out
    runs,         \* the state of each of the concurrent runs on one Client
    client        \* the Client the concurrent runs share: URL and fixURLOnce

vars == <<feed, cursor, baseURL, query, pc, ret, status, openBodies, srvNext,
          frame, scanErr, objectBytes, cancelled, requests, delivered, hres,
          connErr, position, cancelAt, nEmpty, family, payloads, userCalls,
          decIn, decOut, row, resource, runs, client>>

\* The variables of the record decoders, of the StreamAll* wrappers, of the
\* server-side resources and of concurrent runs.
dvars ==
    <<family, payloads, userCalls, decIn, decOut, row, resource, runs,
      client>>

\* The variables of stream itself.
svars == <<feed, cursor, baseURL, query, pc, ret, status, openBodies, srvNext,
           frame, scanErr, objectBytes, cancelled, requests, delivered, hres,
           connErr, position, cancelAt, nEmpty>>

----------------------------------------------------------------------------
\* Data

\* var objectBytes []byte: the nil slice.
NilBytes == [kind |-> "nil", pt |-> 0, idx |-> 0]

\* A "message" frame whose data is the empty string.
EmptyData == [kind |-> "empty", pt |-> 0, idx |-> 0]

\* The payloads the i-th record of the upstream sequence may have: a JSON
\* object with paging_token i, a JSON object without (or with an empty)
\* paging_token, or bytes that are not JSON.
FeedRecords(i) ==
    { [kind |-> "obj", pt |-> i, idx |-> i],
      [kind |-> "obj", pt |-> 0, idx |-> i],
      [kind |-> "notjson", pt |-> 0, idx |-> i] }

Feeds ==
    UNION { { f \in [1..n -> UNION { FeedRecords(i) : i \in 1..n }] :
                \A i \in 1..n : f[i] \in FeedRecords(i) } : n \in 0..MaxFeed }

\* cursor *Cursor: nil, or a pointer to a (possibly empty) token.
StartCursors ==
    { [nil |-> TRUE, val |-> 0] } \cup
    { [nil |-> FALSE, val |-> v] : v \in 0..MaxStart }

NoFrame == [kind |-> "none", dtype |-> "none", data |-> NilBytes]

\* Frames that never reach the handler: a zero-length token, a frame
\* parseEvent rejects, a frame with another event label, and a "message"
\* frame whose Data is neither string nor []byte.
JunkFrames ==
    { [kind |-> "empty", dtype |-> "none", data |-> NilBytes],
      [kind |-> "bad", dtype |-> "none", data |-> NilBytes],
      [kind |-> "other", dtype |-> "none", data |-> NilBytes],
      [kind |-> "message", dtype |-> "invalid", data |-> NilBytes] }

\* A "message" frame whose data is the empty string.
EmptyMessage == [kind |-> "message", dtype |-> "string", data |-> EmptyData]

RecordFrames(r) ==
    { [kind |-> "message", dtype |-> t, data |-> r] : t \in {"string", "bytes"} }

HandlerErrors == {"handlerErrA", "handlerErrB"}

\* Errors scanner.Err() may report besides io.ErrUnexpectedEOF.
IOErrors == {"ECONNRESET", "ETIMEDOUT"}

ScanErrors == {"nil", "ErrUnexpectedEOF"} \cup IOErrors

----------------------------------------------------------------------------
\* Record families and the payloads of the decoders

\* A JSON payload as the decoders see it: whether it parses at all, the value
\* of its "type" and "type_i" fields, the fields it holds, and those among
\* them whose JSON kind is not the one FieldKind gives.
NoPayload == [valid |-> FALSE, type |-> "", type_i |-> 0, present |-> {}, bad |-> {}]

\* No Client is shared: no concurrent runs are involved.
NoClient == [slash |-> FALSE, done |-> FALSE, holder |-> "none"]

\* No row and no resource: no Populate is involved.
NoRow == [kind |-> "none", pt |-> 0, type |-> 0]

NoLink == [path |-> "", order |-> "", cursor |-> 0]

NoResource ==
    [PT |-> 0, TypeI |-> 0, Type |-> "", Succeeds |-> NoLink, Precedes |-> NoLink]

\* The (Record, error) pair of a decoder that was not called.
NoResult == [err |-> "none", variant |-> "none", fields |-> {}]

\* effect.go:126-287, operation.go:80-221: the JSON kind each field of the
\* record structs takes (by json tag).
FieldKind ==
    [ f \in { "_links", "account", "amount", "asset_code", "asset_issuer",
          "asset_type", "auth_required_flag", "auth_revokable_flag",
          "authorize", "bought_amount", "bought_asset_code",
          "bought_asset_issuer", "bought_asset_type", "buying_asset_code",
          "buying_asset_issuer", "buying_asset_type", "clear_flags",
          "clear_flags_s", "created_at", "from", "funder", "high_threshold",
          "home_domain", "id", "inflation_dest", "into", "key", "limit",
          "low_threshold", "master_key_weight", "med_threshold", "name",
          "offer_id", "operation_id", "order", "paging_token", "path",
          "price", "price_r", "public_key", "seller", "selling_asset_code",
          "selling_asset_issuer", "selling_asset_type", "set_flags",
          "set_flags_s", "signer_key", "signer_weight", "sold_amount",
          "sold_asset_code", "sold_asset_issuer", "sold_asset_type",
          "source_account", "source_asset_code", "source_asset_issuer",
          "source_asset_type", "source_max", "starting_balance", "to",
          "transaction_hash", "trustee", "trustor", "type", "type_i",
          "value", "weight" } |->
        CASE f \in {"high_threshold", "low_threshold", "master_key_weight", "med_threshold", "offer_id", "order", "signer_weight", "type_i", "weight"} -> "number"
          [] f \in {"auth_required_flag", "auth_revokable_flag", "authorize"} -> "bool"
          [] f \in {"_links", "price_r"} -> "object"
          [] f \in {"clear_flags", "clear_flags_s", "path", "set_flags", "set_flags_s"} -> "array"
          [] OTHER -> "string" ]

\* effect.go:26-118: the switch of UnmarshalEffect, discriminator to variant.
EffectTable ==
    [ t \in { "account_created", "account_removed", "account_credited",
          "account_debited", "account_thresholds_updated",
          "account_home_domain_updated", "account_flags_updated",
          "account_inflation_destination_updated", "signer_created",
          "signer_removed", "signer_updated", "trustline_created",
          "trustline_removed", "trustline_updated", "trustline_authorized",
          "trustline_deauthorized", "offer_created", "offer_removed",
          "offer_updated", "trade", "data_created", "data_removed",
          "data_updated" } |->
        CASE t = "account_created" -> "AccountCreatedEffect"
          [] t = "account_removed" -> "AccountRemovedEffect"
          [] t = "account_credited" -> "AccountCreditedEffect"
          [] t = "account_debited" -> "AccountDebitedEffect"
          [] t = "account_thresholds_updated" -> "AccountCreatedEffect"
          [] t = "account_home_domain_updated" -> "AccountHomeDomainUpdatedEffect"
          [] t = "account_flags_updated" -> "AccountFlagsUpdatedEffect"
          [] t = "account_inflation_destination_updated" -> "AccountInflationDestinationUpdatedEffect"
          [] t = "signer_created" -> "SignerCreatedEffect"
          [] t = "signer_removed" -> "SignerRemovedEffect"
          [] t = "signer_updated" -> "SignerUpdatedEffect"
          [] t = "trustline_created" -> "TrustlineCreatedEffect"
          [] t = "trustline_removed" -> "TrustlineRemovedEffect"
          [] t = "trustline_updated" -> "TrustlineUpdatedEffect"
          [] t = "trustline_authorized" -> "TrustlineAuthorizedEffect"
          [] t = "trustline_deauthorized" -> "TrustlineDeauthorizedEffect"
          [] t = "offer_created" -> "OfferCreatedEffect"
          [] t = "offer_removed" -> "OfferRemovedEffect"
          [] t = "offer_updated" -> "OfferUpdatedEffect"
          [] t = "trade" -> "TradeEffect"
          [] t = "data_created" -> "DataCreatedEffect"
          [] t = "data_removed" -> "DataRemovedEffect"
          [] OTHER -> "DataUpdatedEffect" ]

\* The codes of xdr.OperationType, in the order of the XDR enum: code i-1 is
\* the i-th name.
XdrOperationTypes ==
    << "CreateAccount",
       "Payment",
       "PathPayment",
       "ManageOffer",
       "CreatePassiveOffer",
       "SetOptions",
       "ChangeTrust",
       "AllowTrust",
       "AccountMerge",
       "Inflation",
       "ManageData" >>

\* operation.go:28-72: the switch of UnmarshalOperation, xdr.OperationType
\* name to variant.
OperationTable ==
    [ t \in { "CreateAccount", "Payment", "PathPayment", "ManageOffer",
          "CreatePassiveOffer", "SetOptions", "ChangeTrust", "AllowTrust",
          "AccountMerge", "Inflation", "ManageData" } |->
        CASE t = "CreateAccount" -> "CreateAccountOperation"
          [] t = "Payment" -> "PaymentOperation"
          [] t = "PathPayment" -> "PathPaymentOperation"
          [] t = "ManageOffer" -> "ManageOfferOperation"
          [] t = "CreatePassiveOffer" -> "CreatePassiveOfferOperation"
          [] t = "SetOptions" -> "SetOptionsOperation"
          [] t = "ChangeTrust" -> "ChangeTrustOperation"
          [] t = "AllowTrust" -> "AllowTrustOperation"
          [] t = "AccountMerge" -> "AccountMergeOperation"
          [] t = "Inflation" -> "InflationOperation"
          [] OTHER -> "ManageDataOperation" ]

\* effect.go:126-287, operation.go:80-221: the json tags of the fields each
\* struct declares, those of embedded structs included.
DeclaredFields(v) ==
    CASE v = "BaseEffect" ->
           { "_links", "id", "paging_token", "account", "type", "type_i",
             "operation_id", "order" }
      [] v = "AccountCreatedEffect" ->
           { "_links", "id", "paging_token", "account", "type", "type_i",
             "operation_id", "order", "starting_balance" }
      [] v = "AccountRemovedEffect" ->
           { "_links", "id", "paging_token", "account", "type", "type_i",
             "operation_id", "order" }
      [] v = "AccountCreditedEffect" ->
           { "_links", "id", "paging_token", "account", "type", "type_i",
             "operation_id", "order", "asset_type", "asset_code",
             "asset_issuer", "amount" }
      [] v = "AccountDebitedEffect" ->
           { "_links", "id", "paging_token", "account", "type", "type_i",
             "operation_id", "order", "asset_type", "asset_code",
             "asset_issuer", "amount" }
      [] v = "AccountThresholdsUpdatedEffect" ->
           { "_links", "id", "paging_token", "account", "type", "type_i",
             "operation_id", "order", "low_threshold", "med_threshold",
             "high_threshold" }
      [] v = "AccountHomeDomainUpdatedEffect" ->
           { "_links", "id", "paging_token", "account", "type", "type_i",
             "operation_id", "order", "home_domain" }
      [] v = "AccountFlagsUpdatedEffect" ->
           { "_links", "id", "paging_token", "account", "type", "type_i",
             "operation_id", "order", "auth_required_flag",
             "auth_revokable_flag" }
      [] v = "AccountInflationDestinationUpdatedEffect" ->
           { "_links", "id", "paging_token", "account", "type", "type_i",
             "operation_id", "order" }
      [] v = "SignerCreatedEffect" ->
           { "_links", "id", "paging_token", "account", "type", "type_i",
             "operation_id", "order", "weight", "public_key", "key" }
      [] v = "SignerRemovedEffect" ->
           { "_links", "id", "paging_token", "account", "type", "type_i",
             "operation_id", "order", "weight", "public_key", "key" }
      [] v = "SignerUpdatedEffect" ->
           { "_links", "id", "paging_token", "account", "type", "type_i",
             "operation_id", "order", "weight", "public_key", "key" }
      [] v = "TrustlineCreatedEffect" ->
           { "_links", "id", "paging_token", "account", "type", "type_i",
             "operation_id", "order", "asset_type", "asset_code",
             "asset_issuer", "limit" }
      [] v = "TrustlineRemovedEffect" ->
           { "_links", "id", "paging_token", "account", "type", "type_i",
             "operation_id", "order", "asset_type", "asset_code",
             "asset_issuer", "limit" }
      [] v = "TrustlineUpdatedEffect" ->
           { "_links", "id", "paging_token", "account", "type", "type_i",
             "operation_id", "order", "asset_type", "asset_code",
             "asset_issuer", "limit" }
      [] v = "TrustlineAuthorizedEffect" ->
           { "_links", "id", "paging_token", "account", "type", "type_i",
             "operation_id", "order", "trustor", "asset_type", "asset_code" }
      [] v = "TrustlineDeauthorizedEffect" ->
           { "_links", "id", "paging_token", "account", "type", "type_i",
             "operation_id", "order", "trustor", "asset_type", "asset_code" }
      [] v = "OfferCreatedEffect" ->
           { "_links", "id", "paging_token", "account", "type", "type_i",
             "operation_id", "order" }
      [] v = "OfferRemovedEffect" ->
           { "_links", "id", "paging_token", "account", "type", "type_i",
             "operation_id", "order" }
      [] v = "OfferUpdatedEffect" ->
           { "_links", "id", "paging_token", "account", "type", "type_i",
             "operation_id", "order" }
      [] v = "TradeEffect" ->
           { "_links", "id", "paging_token", "account", "type", "type_i",
             "operation_id", "order", "seller", "offer_id", "sold_amount",
             "sold_asset_type", "sold_asset_code", "sold_asset_issuer",
             "bought_amount", "bought_asset_type", "bought_asset_code",
             "bought_asset_issuer" }
      [] v = "DataCreatedEffect" ->
           { "_links", "id", "paging_token", "account", "type", "type_i",
             "operation_id", "order" }
      [] v = "DataRemovedEffect" ->
           { "_links", "id", "paging_token", "account", "type", "type_i",
             "operation_id", "order" }
      [] v = "DataUpdatedEffect" ->
           { "_links", "id", "paging_token", "account", "type", "type_i",
             "operation_id", "order" }
      [] v = "BaseOperation" ->
           { "_links", "id", "paging_token", "source_account", "type",
             "type_i", "created_at", "transaction_hash", "order" }
      [] v = "CreateAccountOperation" ->
           { "_links", "id", "paging_token", "source_account", "type",
             "type_i", "created_at", "transaction_hash", "order",
             "starting_balance", "funder", "account" }
      [] v = "PaymentOperation" ->
           { "_links", "id", "paging_token", "source_account", "type",
             "type_i", "created_at", "transaction_hash", "order",
             "asset_type", "asset_code", "asset_issuer", "from", "to",
             "amount" }
      [] v = "PathPaymentOperation" ->
           { "_links", "id", "paging_token", "source_account", "type",
             "type_i", "created_at", "transaction_hash", "order",
             "asset_type", "asset_code", "asset_issuer", "from", "to",
             "amount", "path", "source_max", "source_asset_type",
             "source_asset_code", "source_asset_issuer" }
      [] v = "ManageDataOperation" ->
           { "_links", "id", "paging_token", "source_account", "type",
             "type_i", "created_at", "transaction_hash", "order", "name",
             "value" }
      [] v = "CreatePassiveOfferOperation" ->
           { "_links", "id", "paging_token", "source_account", "type",
             "type_i", "created_at", "transaction_hash", "order", "amount",
             "price", "price_r", "buying_asset_type", "buying_asset_code",
             "buying_asset_issuer", "selling_asset_type",
             "selling_asset_code", "selling_asset_issuer" }
      [] v = "ManageOfferOperation" ->
           { "_links", "id", "paging_token", "source_account", "type",
             "type_i", "created_at", "transaction_hash", "order", "amount",
             "price", "price_r", "buying_asset_type", "buying_asset_code",
             "buying_asset_issuer", "selling_asset_type",
             "selling_asset_code", "selling_asset_issuer", "offer_id" }
      [] v = "SetOptionsOperation" ->
           { "_links", "id", "paging_token", "source_account", "type",
             "type_i", "created_at", "transaction_hash", "order",
             "home_domain", "inflation_dest", "master_key_weight",
             "signer_key", "signer_weight", "set_flags", "set_flags_s",
             "clear_flags", "clear_flags_s", "low_threshold",
             "med_threshold", "high_threshold" }
      [] v = "ChangeTrustOperation" ->
           { "_links", "id", "paging_token", "source_account", "type",
             "type_i", "created_at", "transaction_hash", "order",
             "asset_type", "asset_code", "asset_issuer", "limit", "trustee",
             "trustor" }
      [] v = "AllowTrustOperation" ->
           { "_links", "id", "paging_token", "source_account", "type",
             "type_i", "created_at", "transaction_hash", "order",
             "asset_type", "asset_code", "asset_issuer", "trustee",
             "trustor", "authorize" }
      [] v = "AccountMergeOperation" ->
           { "_links", "id", "paging_token", "source_account", "type",
             "type_i", "created_at", "transaction_hash", "order", "account",
             "into" }
      [] v = "InflationOperation" ->
           { "_links", "id", "paging_token", "source_account", "type",
             "type_i", "created_at", "transaction_hash", "order" }

\* json.Unmarshal(data, &v) for a struct v with the fields F: the call fails
\* on bytes that are no JSON and on a field of F whose JSON kind is wrong.
UnmarshalFails(p, F) == ~p.valid \/ (p.bad \cap F) # {}

\* json.Unmarshal(data, &v): the fields of v the payload sets.
Populated(p, F) == (p.present \cap F) \ p.bad

\* effect.go:16-20: effectType.Type, "" when the payload has no "type".
EffectTypeOf(p) == IF "type" \in p.present THEN p.type ELSE ""

\* operation.go:18-22: opType.TypeI, 0 when the payload has no "type_i".
TypeIOf(p) == IF "type_i" \in p.present THEN p.type_i ELSE 0

\* operation.go:28: xdr.OperationType(opType.TypeI) as a name of the enum,
\* "" for a code the enum does not hold.
OperationTypeName(c) ==
    IF c + 1 \in DOMAIN XdrOperationTypes THEN XdrOperationTypes[c + 1] ELSE ""

\* effect.go:26-118: the variant the switch picks for a known discriminator.
EffectVariant(t) == EffectTable[t]

\* operation.go:28-72: the variant the switch picks for a known type.
OperationVariant(t) == OperationTable[t]

\* effect.go:15-124.
UnmarshalEffect(p) ==
    IF UnmarshalFails(p, {"type"})
    THEN [err |-> "UnmarshalEffectErr", variant |-> "nil", fields |-> {}]
    ELSE IF EffectTypeOf(p) \in DOMAIN EffectTable
    THEN LET v == EffectVariant(EffectTypeOf(p)) IN
         [err |-> IF UnmarshalFails(p, DeclaredFields(v))
                  THEN "UnmarshalEffectErr" ELSE "nil",
          variant |-> v,
          fields |-> Populated(p, DeclaredFields(v))]
    ELSE [err |-> "UnknownEffectTypeErr", variant |-> "nil", fields |-> {}]

\* operation.go:17-78.
UnmarshalOperation(p) ==
    IF UnmarshalFails(p, {"type_i"})
    THEN [err |-> "UnmarshalOperationErr", variant |-> "nil", fields |-> {}]
    ELSE IF OperationTypeName(TypeIOf(p)) \in DOMAIN OperationTable
    THEN LET v == OperationVariant(OperationTypeName(TypeIOf(p))) IN
         [err |-> IF UnmarshalFails(p, DeclaredFields(v))
                  THEN "UnmarshalOperationErr" ELSE "nil",
          variant |-> v,
          fields |-> Populated(p, DeclaredFields(v))]
    ELSE [err |-> "UnknownOperationTypeErr", variant |-> "nil", fields |-> {}]

----------------------------------------------------------------------------
\* Pure parts of stream

\* effect.go:457-460: query after the optional start cursor is set.
InitialQuery(c) ==
    IF c.nil THEN [has |-> FALSE, val |-> 0] ELSE [has |-> TRUE, val |-> c.val]

\* effect.go:522-529: json.Unmarshal(objectBytes, &object) and object.PT.
PagingTokenOf(b) ==
    IF b.kind = "obj" THEN [err |-> FALSE, pt |-> b.pt]
    ELSE [err |-> TRUE, pt |-> 0]

\* Mutant of RecordObject: only the first record of a connection is kept.
RecordObjectFirst(old, data) == IF old.kind = "nil" THEN data ELSE old

\* effect.go:504,507: objectBytes after a handler call on data.
RecordObject(old, data) == data

\* Mutant of ResumeQuery: the cursor is not moved.
ResumeQueryKeep(q, pt) == q

\* effect.go:531-532: query.Set("cursor", object.PT).
ResumeQuery(q, pt) == [has |-> TRUE, val |-> pt]

\* Mutant of Resumable: every read error is taken for a lost connection.
ResumableAlways(err) == TRUE

\* effect.go:521: the errors after which the loop tries to resume.
Resumable(err) == err = "nil" \/ err = "ErrUnexpectedEOF"

\* The server resumes strictly after the requested cursor; without a cursor
\* (or with an empty one) it serves the sequence from its first record.
ServeFrom(q) == IF q.has /\ q.val > 0 THEN q.val + 1 ELSE 1

----------------------------------------------------------------------------
\* No decoder call and no StreamAll* wrapper is involved.
NoDecoding ==
    /\ family = "none"
    /\ payloads = <<>>
    /\ userCalls = <<>>
    /\ decIn = NoPayload
    /\ decOut = NoResult
    /\ row = NoRow
    /\ resource = NoResource
    /\ runs = <<>>
    /\ client = NoClient

Init ==
    /\ NoDecoding
    /\ feed \in Feeds
    /\ cursor \in StartCursors
    /\ baseURL \in {"valid", "invalid"}
    /\ query = InitialQuery(cursor)
    /\ pc = "connect"
    /\ ret = "running"
    /\ status = "none"
    /\ openBodies = 0
    /\ srvNext = 0
    /\ frame = NoFrame
    /\ scanErr = "nil"
    /\ objectBytes = NilBytes
    /\ cancelled = FALSE
    /\ requests = <<>>
    /\ delivered = <<>>
    /\ hres = "none"
    /\ connErr = "none"
    /\ position = IF cursor.nil THEN 0 ELSE cursor.val
    /\ cancelAt = [set |-> FALSE, ndeliv |-> 0, inflight |-> FALSE]
    /\ nEmpty = 0

\* Mutant of Return: only the body of the current connection is closed.
ReturnCloseLast(v) ==
    /\ pc' = "done"
    /\ ret' = v
    /\ openBodies' = IF openBodies > 0 THEN openBodies - 1 ELSE 0

\* return err / return nil: the deferred resp.Body.Close() calls run.
Return(v) ==
    /\ pc' = "done"
    /\ ret' = v
    /\ openBodies' = 0

\* effect.go:463-466: http.NewRequest fails.
NewRequestFail ==
    /\ UNCHANGED dvars
    /\ pc = "connect"
    /\ baseURL = "invalid"
    /\ connErr' = "NewRequestErr"
    /\ Return("NewRequestErr")
    /\ UNCHANGED <<feed, cursor, baseURL, query, status, srvNext, frame,
                   scanErr, objectBytes, cancelled, requests, delivered, hres,
                   position, cancelAt, nEmpty>>

\* Mutant of AfterDoError: the request is tried again.
AfterDoErrorRetry(err) == pc' = "connect" /\ UNCHANGED <<ret, openBodies>>

\* effect.go:470-472 after a failed c.HTTP.Do.
AfterDoError(err) == Return(err)

\* effect.go:469-472: c.HTTP.Do fails.
DoFail ==
    /\ UNCHANGED dvars
    /\ pc = "connect"
    /\ baseURL = "valid"
    /\ Len(requests) < MaxReq
    /\ requests' = Append(requests,
           [has |-> query.has, val |-> query.val,
            ndeliv |-> Len(delivered), ok |-> FALSE])
    /\ connErr' = "DoErr"
    /\ AfterDoError("DoErr")
    /\ UNCHANGED <<feed, cursor, baseURL, query, status, srvNext, frame,
                   scanErr, objectBytes, cancelled, delivered, hres,
                   position, cancelAt, nEmpty>>

\* Mutant of FreshObjectBytes: objectBytes outlives the connection.
FreshObjectBytesKeep(old) == old

\* effect.go:477: var objectBytes []byte, declared anew in each iteration.
FreshObjectBytes(old) == NilBytes

\* effect.go:469-477: c.HTTP.Do answers; the body is deferred-closed, a
\* scanner is put on it and objectBytes starts as nil.
DoOK ==
    /\ UNCHANGED dvars
    /\ pc = "connect"
    /\ baseURL = "valid"
    /\ Len(requests) < MaxReq
    /\ requests' = Append(requests,
           [has |-> query.has, val |-> query.val,
            ndeliv |-> Len(delivered), ok |-> TRUE])
    /\ status' \in {"2xx", "non2xx"}
    /\ openBodies' = openBodies + 1
    /\ srvNext' = ServeFrom(query)
    /\ objectBytes' = FreshObjectBytes(objectBytes)
    /\ pc' = "scan"
    /\ UNCHANGED <<feed, cursor, baseURL, query, ret, frame, scanErr,
                   cancelled, delivered, hres, connErr, position, cancelAt,
                   nEmpty>>

\* effect.go:479: scanner.Scan() returns true with the next record's frame.
ScanRecord ==
    /\ UNCHANGED dvars
    /\ pc = "scan"
    /\ srvNext <= Len(feed)
    /\ frame' \in RecordFrames(feed[srvNext])
    /\ srvNext' = srvNext + 1
    /\ pc' = "check"
    /\ UNCHANGED <<feed, cursor, baseURL, query, ret, status, openBodies,
                   scanErr, objectBytes, cancelled, requests, delivered, hres,
                   connErr, position, cancelAt, nEmpty>>

\* effect.go:479: scanner.Scan() returns true with a frame that will not
\* reach the handler.
ScanJunk ==
    /\ UNCHANGED dvars
    /\ pc = "scan"
    /\ frame' \in JunkFrames
    /\ pc' = "check"
    /\ UNCHANGED <<feed, cursor, baseURL, query, ret, status, openBodies,
                   srvNext, scanErr, objectBytes, cancelled, requests,
                   delivered, hres, connErr, position, cancelAt, nEmpty>>

\* effect.go:479: scanner.Scan() returns true with a "message" frame whose
\* data is empty.
ScanEmptyMessage ==
    /\ UNCHANGED dvars
    /\ pc = "scan"
    /\ nEmpty < MaxEmpty
    /\ frame' = EmptyMessage
    /\ nEmpty' = nEmpty + 1
    /\ pc' = "check"
    /\ UNCHANGED <<feed, cursor, baseURL, query, ret, status, openBodies,
                   srvNext, scanErr, objectBytes, cancelled, requests,
                   delivered, hres, connErr, position, cancelAt>>

\* effect.go:479: scanner.Scan() returns false: the body ended (io.EOF, which
\* scanner.Err() reports as nil) or a read failed.
ScanEnd ==
    /\ UNCHANGED dvars
    /\ pc = "scan"
    /\ scanErr' \in ScanErrors
    /\ pc' = "end"
    /\ UNCHANGED <<feed, cursor, baseURL, query, ret, status, openBodies,
                   srvNext, frame, objectBytes, cancelled, requests, delivered,
                   hres, connErr, position, cancelAt, nEmpty>>

\* effect.go:480-499: the ctx check, then the filters before the handler.
\* A frame the loop is through with (continue) is dropped from the state.
CheckFrame ==
    /\ UNCHANGED dvars
    /\ pc = "check"
    /\ IF cancelled THEN Return("nil") /\ frame' = frame
       ELSE IF frame.kind = "empty"
            THEN pc' = "scan" /\ frame' = NoFrame /\ UNCHANGED <<ret, openBodies>>
       ELSE IF frame.kind = "bad" THEN Return("ParseEventErr") /\ frame' = frame
       ELSE IF frame.kind # "message"
            THEN pc' = "scan" /\ frame' = NoFrame /\ UNCHANGED <<ret, openBodies>>
       ELSE pc' = "handle" /\ frame' = frame /\ UNCHANGED <<ret, openBodies>>
    /\ UNCHANGED <<feed, cursor, baseURL, query, status, srvNext,
                   scanErr, objectBytes, cancelled, requests, delivered, hres,
                   connErr, position, cancelAt, nEmpty>>

\* Mutant of AfterHandler: the handler's error is dropped.
AfterHandlerIgnore(err) ==
    pc' = "scan" /\ frame' = NoFrame /\ UNCHANGED <<ret, openBodies>>

\* effect.go:511-513: what follows the switch, given the handler's result.
AfterHandler(err) ==
    IF err # "nil" THEN Return(err) /\ frame' = frame
    ELSE pc' = "scan" /\ frame' = NoFrame /\ UNCHANGED <<ret, openBodies>>

\* effect.go:501-513: the handler is called on the frame's data.
Handle ==
    /\ UNCHANGED dvars
    /\ pc = "handle"
    /\ IF frame.dtype \in {"string", "bytes"}
       THEN \E err \in {"nil"} \cup HandlerErrors :
              /\ hres' = err
              /\ delivered' = Append(delivered, frame.data)
              /\ objectBytes' = RecordObject(objectBytes, frame.data)
              /\ position' = IF err = "nil" THEN PagingTokenOf(frame.data).pt
                             ELSE position
              /\ AfterHandler(err)
       ELSE /\ Return("InvalidDataTypeErr")
            /\ UNCHANGED <<frame, hres, delivered, objectBytes, position>>
    /\ UNCHANGED <<feed, cursor, baseURL, query, status, srvNext,
                   scanErr, cancelled, requests, connErr, cancelAt, nEmpty>>

\* Mutant of HasToken: any token, the empty one too, is good to resume from.
HasTokenAlways(pt) == TRUE

\* effect.go:531: object.PT != "".
HasToken(pt) == pt # 0

\* effect.go:516-542: scanner.Err() decides between resuming and returning.
\* err is local to the iteration: it is gone when the loop continues.
StreamEnd ==
    /\ UNCHANGED dvars
    /\ pc = "end"
    /\ IF Resumable(scanErr)
       THEN LET object == PagingTokenOf(objectBytes) IN
            IF object.err
            THEN Return("UnmarshalObjectBytesErr") /\ UNCHANGED <<query, scanErr>>
            ELSE IF HasToken(object.pt)
                 THEN /\ query' = ResumeQuery(query, object.pt)
                      /\ pc' = "connect"
                      /\ scanErr' = "nil"
                      /\ UNCHANGED <<ret, openBodies>>
                 ELSE Return("NoPagingTokenErr") /\ UNCHANGED <<query, scanErr>>
       ELSE Return(scanErr) /\ UNCHANGED <<query, scanErr>>
    /\ UNCHANGED <<feed, cursor, baseURL, status, srvNext, frame,
                   objectBytes, cancelled, requests, delivered, hres, connErr,
                   position, cancelAt, nEmpty>>

\* The caller cancels ctx while the run is going on.
Cancel ==
    /\ UNCHANGED dvars
    /\ pc # "done"
    /\ ~cancelled
    /\ cancelled' = TRUE
    /\ cancelAt' = [set |-> TRUE, ndeliv |-> Len(delivered),
                    inflight |-> pc = "handle"]
    /\ UNCHANGED <<feed, cursor, baseURL, query, pc, ret, status, openBodies,
                   srvNext, frame, scanErr, objectBytes, requests, delivered,
                   hres, connErr, position, nEmpty>>

Next ==
    \/ NewRequestFail
    \/ DoFail
    \/ DoOK
    \/ ScanRecord
    \/ ScanJunk
    \/ ScanEmptyMessage
    \/ ScanEnd
    \/ CheckFrame
    \/ Handle
    \/ StreamEnd
    \/ Cancel

Spec == Init /\ [][Next]_vars

----------------------------------------------------------------------------
\* The decoders on their own: one call of UnmarshalEffect or of
\* UnmarshalOperation on a payload.

\* "type" values the switch of UnmarshalEffect does not list: the name the
\* server gives a row of unrecognised type, and the name of a later effect.
UnknownEffectTypes == {"unknown", "sequence_bumped"}

\* "type_i" values the switch of UnmarshalOperation does not list.
UnknownTypeCodes == {Len(XdrOperationTypes), Len(XdrOperationTypes) + 1}

EffectVariants == { EffectTable[t] : t \in DOMAIN EffectTable }
    \cup {"AccountThresholdsUpdatedEffect"}

OperationVariants == { OperationTable[t] : t \in DOMAIN OperationTable }

\* The payloads a decoder is called on: the fields of a record of some
\* variant, under any discriminator, with or without its discriminator
\* field, with at most one field of a wrong JSON kind, or no JSON at all.
PayloadsOf(vs, types, codes, discriminator) ==
    UNION { { [valid |-> ok, type |-> t, type_i |-> c,
               present |-> DeclaredFields(v) \ drop, bad |-> b] :
                ok \in BOOLEAN, t \in types, c \in codes,
                drop \in {{}, {discriminator}},
                b \in {{}} \cup { {f} : f \in DeclaredFields(v) } } :
            v \in vs }

EffectPayloads ==
    { p \in PayloadsOf(EffectVariants, DOMAIN EffectTable \cup UnknownEffectTypes,
                       {0}, "type") : p.bad \subseteq p.present }

OperationPayloads ==
    { p \in PayloadsOf(OperationVariants, {"x"},
                       0..(Len(XdrOperationTypes) - 1) \cup UnknownTypeCodes,
                       "type_i") : p.bad \subseteq p.present }

InitDecode ==
    /\ pc = "decode"
    /\ feed = <<>>
    /\ cursor = [nil |-> TRUE, val |-> 0]
    /\ baseURL = "valid"
    /\ query = InitialQuery(cursor)
    /\ ret = "running"
    /\ status = "none"
    /\ openBodies = 0
    /\ srvNext = 0
    /\ frame = NoFrame
    /\ scanErr = "nil"
    /\ objectBytes = NilBytes
    /\ cancelled = FALSE
    /\ requests = <<>>
    /\ delivered = <<>>
    /\ hres = "none"
    /\ connErr = "none"
    /\ position = 0
    /\ cancelAt = [set |-> FALSE, ndeliv |-> 0, inflight |-> FALSE]
    /\ nEmpty = 0
    /\ payloads = <<>>
    /\ userCalls = <<>>
    /\ decOut = NoResult
    /\ row = NoRow
    /\ resource = NoResource
    /\ runs = <<>>
    /\ client = NoClient
    /\ \/ family = "Effect" /\ decIn \in EffectPayloads
       \/ family = "Operation" /\ decIn \in OperationPayloads

\* effect.go:15-124: one call of UnmarshalEffect.
DecodeEffect ==
    /\ pc = "decode"
    /\ family = "Effect"
    /\ decOut' = UnmarshalEffect(decIn)
    /\ pc' = "decoded"
    /\ UNCHANGED <<feed, cursor, baseURL, query, ret, status, openBodies,
                   srvNext, frame, scanErr, objectBytes, cancelled, requests,
                   delivered, hres, connErr, position, cancelAt, nEmpty,
                   family, payloads, userCalls, decIn, row, resource,
                   runs, client>>

\* operation.go:17-78: one call of UnmarshalOperation.
DecodeOperation ==
    /\ pc = "decode"
    /\ family = "Operation"
    /\ decOut' = UnmarshalOperation(decIn)
    /\ pc' = "decoded"
    /\ UNCHANGED <<feed, cursor, baseURL, query, ret, status, openBodies,
                   srvNext, frame, scanErr, objectBytes, cancelled, requests,
                   delivered, hres, connErr, position, cancelAt, nEmpty,
                   family, payloads, userCalls, decIn, row, resource,
                   runs, client>>

NextDecode ==
    \/ DecodeEffect
    \/ DecodeOperation

SpecDecode == InitDecode /\ [][NextDecode]_vars

----------------------------------------------------------------------------
\* StreamAllEffects / StreamAllOperations: stream with the handler that
\* decodes each frame's data and passes the record to the user's handler.

\* A record of the feed as JSON of the family: a payment operation or an
\* account_credited effect, with the paging_token the feed gives it.
SamplePayload(rec) ==
    [valid |-> rec.kind = "obj",
     type |-> "account_credited",
     type_i |-> 1,
     present |-> IF rec.kind # "obj" THEN {}
                 ELSE (DeclaredFields("AccountCreditedEffect")
                       \cup DeclaredFields("PaymentOperation"))
                      \ (IF rec.pt = 0 THEN {"paging_token"} ELSE {}),
     bad |-> {}]

\* What may be wrong with a record: its "amount" is a JSON number, or its
\* type is one the decoder's switch does not list.
Spoils == {"shape", "type"}

Spoiled(p, how) ==
    IF ~p.valid THEN p
    ELSE IF how = "shape" THEN [p EXCEPT !.bad = {"amount"}]
    ELSE [p EXCEPT !.type = "unknown", !.type_i = Len(XdrOperationTypes)]

\* The payloads of a feed of which record k (none when k = 0) is spoiled.
PayloadsWith(f, k, how) ==
    [i \in 1..Len(f) |-> IF i = k THEN Spoiled(SamplePayload(f[i]), how)
                         ELSE SamplePayload(f[i])]

\* The bytes the wrapper gets for a frame's data.
PayloadFor(data) ==
    IF data.kind = "empty" THEN NoPayload ELSE payloads[data.idx]

\* effect.go:611, 626: UnmarshalOperation(data) or UnmarshalEffect(data).
Decode(fam, p) ==
    IF fam = "Effect" THEN UnmarshalEffect(p) ELSE UnmarshalOperation(p)

\* Mutant of WrapperResult: the decoder's error is dropped.
WrapperResultIgnore(err) == "nil"

\* effect.go:612-617, 627-632: what the wrapper returns to stream.
WrapperResult(err) == IF err # "nil" THEN "UnmarshalDataErr" ELSE "nil"

InitAll ==
    /\ family \in {"Effect", "Operation"}
    /\ feed \in Feeds
    /\ \E k \in 0..Len(feed), how \in Spoils :
           /\ k = 0 => how = "shape"
           /\ payloads = PayloadsWith(feed, k, how)
    /\ userCalls = <<>>
    /\ decIn = NoPayload
    /\ decOut = NoResult
    /\ row = NoRow
    /\ resource = NoResource
    /\ runs = <<>>
    /\ client = NoClient
    /\ cursor = [nil |-> TRUE, val |-> 0]
    /\ baseURL = "valid"
    /\ query = InitialQuery(cursor)
    /\ pc = "connect"
    /\ ret = "running"
    /\ status = "none"
    /\ openBodies = 0
    /\ srvNext = 0
    /\ frame = NoFrame
    /\ scanErr = "nil"
    /\ objectBytes = NilBytes
    /\ cancelled = FALSE
    /\ requests = <<>>
    /\ delivered = <<>>
    /\ hres = "none"
    /\ connErr = "none"
    /\ position = 0
    /\ cancelAt = [set |-> FALSE, ndeliv |-> 0, inflight |-> FALSE]
    /\ nEmpty = 0

\* effect.go:501-513 with the handler of effect.go:610-618 / 625-633.
HandleAll ==
    /\ pc = "handle"
    /\ IF frame.dtype \in {"string", "bytes"}
       THEN LET p == PayloadFor(frame.data)
                out == Decode(family, p)
                err == WrapperResult(out.err)
            IN /\ decIn' = p
               /\ decOut' = out
               /\ userCalls' = IF out.err = "nil"
                               THEN Append(userCalls, frame.data)
                               ELSE userCalls
               /\ hres' = err
               /\ delivered' = Append(delivered, frame.data)
               /\ objectBytes' = RecordObject(objectBytes, frame.data)
               /\ position' = IF err = "nil" THEN PagingTokenOf(frame.data).pt
                              ELSE position
               /\ AfterHandler(err)
       ELSE /\ Return("InvalidDataTypeErr")
            /\ UNCHANGED <<frame, hres, delivered, objectBytes, position,
                           decIn, decOut, userCalls>>
    /\ UNCHANGED <<feed, cursor, baseURL, query, status, srvNext,
                   scanErr, cancelled, requests, connErr, cancelAt, nEmpty,
                   family, payloads, row, resource, runs, client>>

NextAll ==
    \/ DoFail
    \/ DoOK
    \/ ScanRecord
    \/ ScanJunk
    \/ ScanEmptyMessage
    \/ ScanEnd
    \/ CheckFrame
    \/ HandleAll
    \/ StreamEnd
    \/ Cancel

SpecAll == InitAll /\ [][NextAll]_vars

----------------------------------------------------------------------------
\* The server side: Populate of the effect, operation and transaction
\* resources.

\* No run of stream is involved: its variables stay at their first values,
\* with pc at the given label.
StreamIdle(at) ==
    /\ pc = at
    /\ feed = <<>>
    /\ cursor = [nil |-> TRUE, val |-> 0]
    /\ baseURL = "valid"
    /\ query = InitialQuery(cursor)
    /\ ret = "running"
    /\ status = "none"
    /\ openBodies = 0
    /\ srvNext = 0
    /\ frame = NoFrame
    /\ scanErr = "nil"
    /\ objectBytes = NilBytes
    /\ cancelled = FALSE
    /\ requests = <<>>
    /\ delivered = <<>>
    /\ hres = "none"
    /\ connErr = "none"
    /\ position = 0
    /\ cancelAt = [set |-> FALSE, ndeliv |-> 0, inflight |-> FALSE]
    /\ nEmpty = 0

\* effects.TypeNames: the name of each history.EffectType code.
EffectTypeNames ==
    [c \in {0, 1, 2, 3, 4, 5, 6, 10, 11, 12, 20, 21, 22, 23, 24, 30, 31, 32,
            33, 40, 41, 42} |->
        CASE c = 0 -> "account_created"
          [] c = 1 -> "account_removed"
          [] c = 2 -> "account_credited"
          [] c = 3 -> "account_debited"
          [] c = 4 -> "account_thresholds_updated"
          [] c = 5 -> "account_home_domain_updated"
          [] c = 6 -> "account_flags_updated"
          [] c = 10 -> "signer_created"
          [] c = 11 -> "signer_removed"
          [] c = 12 -> "signer_updated"
          [] c = 20 -> "trustline_created"
          [] c = 21 -> "trustline_removed"
          [] c = 22 -> "trustline_updated"
          [] c = 23 -> "trustline_authorized"
          [] c = 24 -> "trustline_deauthorized"
          [] c = 30 -> "offer_created"
          [] c = 31 -> "offer_removed"
          [] c = 32 -> "offer_updated"
          [] c = 33 -> "trade"
          [] c = 40 -> "data_created"
          [] c = 41 -> "data_removed"
          [] OTHER -> "data_updated" ]

\* operations.TypeNames: the name of each xdr.OperationType code.
OperationTypeNames ==
    [c \in 0..(Len(XdrOperationTypes) - 1) |->
        CASE c = 0 -> "create_account"
          [] c = 1 -> "payment"
          [] c = 2 -> "path_payment"
          [] c = 3 -> "manage_offer"
          [] c = 4 -> "create_passive_offer"
          [] c = 5 -> "set_options"
          [] c = 6 -> "change_trust"
          [] c = 7 -> "allow_trust"
          [] c = 8 -> "account_merge"
          [] c = 9 -> "inflation"
          [] OTHER -> "manage_data" ]

\* lb.Linkf("<path>?order=<order>&cursor=%s", pt): the link as its parts.
Linkf(path, order, pt) == [path |-> path, order |-> order, cursor |-> pt]

\* part_000:33-41, operations/base.go:41-49: populateType against a table.
populateType(names, code) ==
    [TypeI |-> code,
     Type |-> IF code \in DOMAIN names THEN names[code] ELSE "unknown"]

\* part_000:19-31: effects Base.Populate.
EffectsBasePopulate(r) ==
    [PT |-> r.pt,
     TypeI |-> populateType(EffectTypeNames, r.type).TypeI,
     Type |-> populateType(EffectTypeNames, r.type).Type,
     Succeeds |-> Linkf("/effects", "desc", r.pt),
     Precedes |-> Linkf("/effects", "asc", r.pt)]

\* operations/base.go:19-39: operations Base.Populate.
OperationsBasePopulate(r) ==
    [PT |-> r.pt,
     TypeI |-> populateType(OperationTypeNames, r.type).TypeI,
     Type |-> populateType(OperationTypeNames, r.type).Type,
     Succeeds |-> Linkf("/effects", "desc", r.pt),
     Precedes |-> Linkf("/effects", "asc", r.pt)]

\* operations/base.go:67-100: Transaction.Populate (a transaction has no
\* type).
TransactionPopulate(r) ==
    [PT |-> r.pt,
     TypeI |-> 0,
     Type |-> "",
     Succeeds |-> Linkf("/transactions", "desc", r.pt),
     Precedes |-> Linkf("/transactions", "asc", r.pt)]

\* The paging tokens of the rows.
RowTokens == 1..(MaxFeed + 1)

\* The rows Populate is called on: type codes of the table and two the
\* table does not hold.
Rows ==
    { [kind |-> "effect", pt |-> t, type |-> c] :
        t \in RowTokens, c \in DOMAIN EffectTypeNames \cup {7, 43} }
    \cup { [kind |-> "operation", pt |-> t, type |-> c] :
        t \in RowTokens, c \in DOMAIN OperationTypeNames \cup UnknownTypeCodes }
    \cup { [kind |-> "transaction", pt |-> t, type |-> 0] : t \in RowTokens }

InitPopulate ==
    /\ StreamIdle("populate")
    /\ family = "none"
    /\ payloads = <<>>
    /\ userCalls = <<>>
    /\ decIn = NoPayload
    /\ decOut = NoResult
    /\ runs = <<>>
    /\ client = NoClient
    /\ resource = NoResource
    /\ row \in Rows

\* part_000:19-31.
PopulateEffect ==
    /\ pc = "populate"
    /\ row.kind = "effect"
    /\ resource' = EffectsBasePopulate(row)
    /\ pc' = "populated"
    /\ UNCHANGED <<feed, cursor, baseURL, query, ret, status, openBodies,
                   srvNext, frame, scanErr, objectBytes, cancelled, requests,
                   delivered, hres, connErr, position, cancelAt, nEmpty,
                   family, payloads, userCalls, decIn, decOut, row, runs,
                   client>>

\* operations/base.go:19-39.
PopulateOperation ==
    /\ pc = "populate"
    /\ row.kind = "operation"
    /\ resource' = OperationsBasePopulate(row)
    /\ pc' = "populated"
    /\ UNCHANGED <<feed, cursor, baseURL, query, ret, status, openBodies,
                   srvNext, frame, scanErr, objectBytes, cancelled, requests,
                   delivered, hres, connErr, position, cancelAt, nEmpty,
                   family, payloads, userCalls, decIn, decOut, row, runs,
                   client>>

\* operations/base.go:67-100.
PopulateTransaction ==
    /\ pc = "populate"
    /\ row.kind = "transaction"
    /\ resource' = TransactionPopulate(row)
    /\ pc' = "populated"
    /\ UNCHANGED <<feed, cursor, baseURL, query, ret, status, openBodies,
                   srvNext, frame, scanErr, objectBytes, cancelled, requests,
                   delivered, hres, connErr, position, cancelAt, nEmpty,
                   family, payloads, userCalls, decIn, decOut, row, runs,
                   client>>

NextPopulate ==
    \/ PopulateEffect
    \/ PopulateOperation
    \/ PopulateTransaction

SpecPopulate == InitPopulate /\ [][NextPopulate]_vars

----------------------------------------------------------------------------
\* Two concurrent runs on one Client: StreamAllEffects and
\* StreamAllOperations, each in its own goroutine.

MaxTwoFeed == 2
MaxTwoReq == 2

TwoRuns == {"Effect", "Operation"}

\* effect.go:611, 626: the collection a run streams from.
Collection(r) == IF r = "Effect" THEN "/effects" ELSE "/operations"

\* The records the server holds for the collection of run r, each with its
\* paging_token.
TwoFeed(r) ==
    [i \in 1..MaxTwoFeed |-> [kind |-> "obj", pt |-> i, idx |-> i, fam |-> r]]

\* effect.go:318-320: strings.TrimRight(c.URL, "/").
fixURL(c) == [c EXCEPT !.slash = FALSE]

\* Mutant of OnceReady: Do returns at once, whatever the first call does.
OnceReadyAlways(c) == TRUE

\* effect.go:610, 625: c.fixURLOnce.Do returns without calling fixURL once
\* a first call has completed.
OnceReady(c) == c.done

\* The locals of a call of StreamAll* that has not begun.
RunInit ==
    [pc |-> "once",
     baseURL |-> [slash |-> FALSE, path |-> ""],
     query |-> InitialQuery([nil |-> TRUE, val |-> 0]),
     srvNext |-> 0,
     frame |-> NilBytes,
     scanErr |-> "nil",
     objectBytes |-> NilBytes,
     cancelled |-> FALSE,
     requests |-> <<>>,
     delivered |-> <<>>,
     ret |-> "running"]

InitTwo ==
    /\ StreamIdle("two")
    /\ family = "none"
    /\ payloads = <<>>
    /\ userCalls = <<>>
    /\ decIn = NoPayload
    /\ decOut = NoResult
    /\ row = NoRow
    /\ resource = NoResource
    /\ runs = [r \in TwoRuns |-> RunInit]
    /\ client \in { [slash |-> sl, done |-> FALSE, holder |-> "none"] :
                      sl \in BOOLEAN }

\* What the steps of the two runs leave alone.
TwoUnchanged ==
    UNCHANGED <<feed, cursor, baseURL, query, pc, ret, status, openBodies,
                srvNext, frame, scanErr, objectBytes, cancelled, requests,
                delivered, hres, connErr, position, cancelAt, nEmpty, family,
                payloads, userCalls, decIn, decOut, row, resource>>

\* return v in run r.
RunReturn(s, v) == [s EXCEPT !.pc = "done", !.ret = v]

\* effect.go:610, 625: run r is the first in c.fixURLOnce.Do and takes the
\* lock of the Once; a later caller waits for it.
RunOnceBegin(r) ==
    /\ runs[r].pc = "once"
    /\ ~client.done
    /\ client.holder = "none"
    /\ client' = [client EXCEPT !.holder = r]
    /\ runs' = [runs EXCEPT ![r].pc = "fixing"]
    /\ TwoUnchanged

\* effect.go:318-320: run r executes fixURL inside the Once and leaves it.
RunFixURL(r) ==
    /\ runs[r].pc = "fixing"
    /\ client' = [fixURL(client) EXCEPT !.done = TRUE, !.holder = "none"]
    /\ runs' = [runs EXCEPT ![r].pc = "url"]
    /\ TwoUnchanged

\* effect.go:610, 625: c.fixURLOnce.Do returns at once for a later caller.
RunOnceDone(r) ==
    /\ runs[r].pc = "once"
    /\ OnceReady(client)
    /\ runs' = [runs EXCEPT ![r].pc = "url"]
    /\ UNCHANGED client
    /\ TwoUnchanged

\* effect.go:611, 626 and 457-461: url from c.URL, and the empty query.
RunURL(r) ==
    /\ runs[r].pc = "url"
    /\ runs' = [runs EXCEPT
                  ![r].baseURL = [slash |-> client.slash, path |-> Collection(r)],
                  ![r].pc = "connect"]
    /\ UNCHANGED client
    /\ TwoUnchanged

\* effect.go:462-477: the request of run r is sent; c.HTTP.Do fails or
\* answers with a body served from the cursor.
RunConnect(r) ==
    LET s == runs[r] IN
    /\ s.pc = "connect"
    /\ Len(s.requests) < MaxTwoReq
    /\ \E ok \in BOOLEAN :
         LET sent == [s EXCEPT !.requests = Append(s.requests,
                         [url |-> s.baseURL, has |-> s.query.has,
                          val |-> s.query.val, ndeliv |-> Len(s.delivered)])]
         IN runs' = [runs EXCEPT ![r] =
                IF ok
                THEN [sent EXCEPT !.srvNext = ServeFrom(s.query),
                                  !.objectBytes = FreshObjectBytes(s.objectBytes),
                                  !.pc = "scan"]
                ELSE RunReturn(sent, "DoErr")]
    /\ UNCHANGED client
    /\ TwoUnchanged

\* effect.go:479: scanner.Scan() returns true with the next record's frame.
RunScanRecord(r) ==
    LET s == runs[r] IN
    /\ s.pc = "scan"
    /\ s.srvNext <= MaxTwoFeed
    /\ runs' = [runs EXCEPT ![r] =
                  [s EXCEPT !.frame = TwoFeed(r)[s.srvNext],
                            !.srvNext = s.srvNext + 1,
                            !.pc = "check"]]
    /\ UNCHANGED client
    /\ TwoUnchanged

\* effect.go:479: scanner.Scan() returns false.
RunScanEnd(r) ==
    LET s == runs[r] IN
    /\ s.pc = "scan"
    /\ \E e \in {"nil", "ETIMEDOUT"} :
         runs' = [runs EXCEPT ![r] = [s EXCEPT !.scanErr = e, !.pc = "end"]]
    /\ UNCHANGED client
    /\ TwoUnchanged

\* effect.go:480-486: the ctx check of run r.
RunCheck(r) ==
    LET s == runs[r] IN
    /\ s.pc = "check"
    /\ runs' = [runs EXCEPT ![r] =
                  IF s.cancelled THEN RunReturn(s, "nil")
                  ELSE [s EXCEPT !.pc = "handle"]]
    /\ UNCHANGED client
    /\ TwoUnchanged

\* effect.go:501-513 with the handler of 612-618 / 627-633: the record is
\* decoded and handed to the user's handler of run r.
RunHandle(r) ==
    LET s == runs[r]
        err == WrapperResult(Decode(r, SamplePayload(s.frame)).err)
        t == [s EXCEPT !.delivered = Append(s.delivered, s.frame),
                       !.objectBytes = RecordObject(s.objectBytes, s.frame)]
    IN
    /\ s.pc = "handle"
    /\ runs' = [runs EXCEPT ![r] =
                  IF err # "nil" THEN RunReturn(t, err)
                  ELSE [t EXCEPT !.frame = NilBytes, !.pc = "scan"]]
    /\ UNCHANGED client
    /\ TwoUnchanged

\* effect.go:516-542: run r resumes from its objectBytes or returns.
RunEnd(r) ==
    LET s == runs[r]
        object == PagingTokenOf(s.objectBytes)
    IN
    /\ s.pc = "end"
    /\ runs' = [runs EXCEPT ![r] =
                  IF ~Resumable(s.scanErr) THEN RunReturn(s, s.scanErr)
                  ELSE IF object.err THEN RunReturn(s, "UnmarshalObjectBytesErr")
                  ELSE IF HasToken(object.pt)
                       THEN [s EXCEPT !.query = ResumeQuery(s.query, object.pt),
                                      !.scanErr = "nil",
                                      !.pc = "connect"]
                       ELSE RunReturn(s, "NoPagingTokenErr")]
    /\ UNCHANGED client
    /\ TwoUnchanged

\* The caller of run r cancels the ctx it gave to that run.
RunCancel(r) ==
    /\ runs[r].pc # "done"
    /\ ~runs[r].cancelled
    /\ runs' = [runs EXCEPT ![r].cancelled = TRUE]
    /\ UNCHANGED client
    /\ TwoUnchanged

NextTwo ==
    \/ \E r \in TwoRuns : RunOnceBegin(r)
    \/ \E r \in TwoRuns : RunFixURL(r)
    \/ \E r \in TwoRuns : RunOnceDone(r)
    \/ \E r \in TwoRuns : RunURL(r)
    \/ \E r \in TwoRuns : RunConnect(r)
    \/ \E r \in TwoRuns : RunScanRecord(r)
    \/ \E r \in TwoRuns : RunScanEnd(r)
    \/ \E r \in TwoRuns : RunCheck(r)
    \/ \E r \in TwoRuns : RunHandle(r)
    \/ \E r \in TwoRuns : RunEnd(r)
    \/ \E r \in TwoRuns : RunCancel(r)

SpecTwo == InitTwo /\ [][NextTwo]_vars


----------------------------------------------------------------------------
\* Properties

\* The records among the handler's inputs (a "message" frame with empty data
\* reaches the handler too, and is no record).
DeliveredRecords == SelectSeq(delivered, LAMBDA d : d.idx > 0)

\* The token the run was started after.
StartToken == IF cursor.nil THEN 0 ELSE cursor.val

\* Every record of the feed is a JSON object with its own non-empty token.
AllTokens == \A i \in 1..Len(feed) : feed[i].kind = "obj" /\ feed[i].pt = i

\* The errors only the resume step (effect.go:521-538) returns.
ResumeErrors == {"UnmarshalObjectBytesErr", "NoPagingTokenErr"}

\* C1: every request after the first carries, as cursor, the non-empty
\* paging_token of the record most recently passed to the handler before
\* that request: never an older record's token, never an undelivered one's.
C1_ReconnectCursor ==
    \A j \in 2..Len(requests) :
        LET r == requests[j] IN
        /\ r.has
        /\ r.ndeliv >= 1
        /\ delivered[r.ndeliv].kind = "obj"
        /\ r.val # 0
        /\ r.val = delivered[r.ndeliv].pt

\* C1 witness: a reconnect after two records were delivered on a connection.
C1_Witness ==
    /\ Len(requests) >= 2
    /\ requests[2].ndeliv >= 2
    /\ requests[2].val = delivered[2].pt

\* C2: on a feed whose records all carry their token, the handler sees the
\* records served after the start cursor in feed order, each once, without
\* gap; every reconnect asks for the token of the last delivered record; and
\* once the server has sent the whole feed and the run waits for more, the
\* handler has seen all of it.
C2_InOrderOnce ==
    AllTokens =>
        /\ \A j \in 1..Len(DeliveredRecords) :
               /\ StartToken + j <= Len(feed)
               /\ DeliveredRecords[j] = feed[StartToken + j]
        /\ \A j \in 2..Len(requests) :
               /\ requests[j].ndeliv >= 1
               /\ requests[j].val = delivered[requests[j].ndeliv].idx
        /\ (pc = "scan" /\ srvNext > Len(feed) /\ Len(feed) >= StartToken)
               => Len(DeliveredRecords) = Len(feed) - StartToken

\* C2 witness: R1..R3, the connection drops after R2, the run reconnects at
\* R2's token and the handler has seen R1, R2, R3.
C2_Witness ==
    /\ AllTokens
    /\ cursor.nil
    /\ Len(feed) = MaxFeed
    /\ Len(requests) = 2
    /\ requests[2].ndeliv = MaxFeed - 1
    /\ requests[2].val = MaxFeed - 1
    /\ pc = "scan"
    /\ delivered = feed

\* C3: when the handler returns an error the run has returned exactly that
\* error, and from then on no record is delivered and no request is issued.
C3_HandlerError ==
    [][ /\ hres' \in HandlerErrors => (pc' = "done" /\ ret' = hres')
        /\ hres \in HandlerErrors => UNCHANGED <<delivered, requests, pc, ret>>
      ]_vars

\* C3 witness: the handler failed on the second record while the feed holds
\* a later one.
C3_Witness ==
    /\ pc = "done"
    /\ ret \in HandlerErrors
    /\ hres = ret
    /\ Len(delivered) = 2
    /\ srvNext <= Len(feed)

\* C4 (as claimed): a run cancelled after a record was delivered, with no
\* handler invocation in flight, returns nil and invokes the handler no more,
\* whatever the server does next.
C4_CancelReturnsNil ==
    ( /\ pc = "done"
      /\ status = "2xx"
      /\ cancelAt.set
      /\ ~cancelAt.inflight
      /\ cancelAt.ndeliv >= 1
      /\ \A j \in 1..cancelAt.ndeliv :
             delivered[j].kind = "obj" /\ delivered[j].pt # 0 )
        => (ret = "nil" /\ Len(delivered) = cancelAt.ndeliv)

\* C5 (as claimed, for runs started with a non-empty cursor): when the body
\* of a 2xx response is exhausted, a non-empty current position makes the
\* run's next step go for a new request at that position, and an empty one
\* makes it return the resumption error.
C5_ExhaustionByPosition ==
    [][ ( /\ pc = "end"
          /\ scanErr \in {"nil", "ErrUnexpectedEOF"}
          /\ status = "2xx"
          /\ StartToken # 0
          /\ pc' # pc ) =>
            IF position # 0
            THEN pc' = "connect" /\ query' = [has |-> TRUE, val |-> position]
            ELSE pc' = "done" /\ ret' = "NoPagingTokenErr"
      ]_vars

\* C6 (as claimed): once records with non-empty tokens have been delivered
\* (and nothing else), no exhaustion of a body makes the run return.
C6_ExhaustionInvisible ==
    ( /\ delivered # <<>>
      /\ status = "2xx"
      /\ \A j \in 1..Len(delivered) :
             delivered[j].kind = "obj" /\ delivered[j].pt # 0
      /\ hres = "nil" )
        => ret \notin ResumeErrors

\* C7 (as claimed): in a run started without a cursor, as long as no
\* delivered record carried a non-empty token the run issues no second
\* request, and where the end of the stream makes it return, it returns the
\* "no paging_token" error.
C7_NoTokenResumptionError ==
    ( /\ cursor.nil
      /\ status \in {"none", "2xx"}
      /\ \A j \in 1..Len(delivered) :
             ~(delivered[j].kind = "obj" /\ delivered[j].pt # 0) )
        => /\ Len(requests) <= 1
           /\ ret \in ResumeErrors => ret = "NoPagingTokenErr"

C9_ConnectFailure ==
    /\ connErr # "none" => (pc = "done" /\ ret = connErr)
    /\ \A j \in 1..Len(requests) :
           ~requests[j].ok =>
               /\ j = Len(requests)
               /\ connErr = "DoErr"
               /\ Len(delivered) = requests[j].ndeliv

\* C9 witness: the connection attempt of a reconnect fails.
C9_Witness ==
    /\ pc = "done"
    /\ ret = "DoErr"
    /\ Len(requests) >= 2
    /\ ~requests[Len(requests)].ok

\* C10 (as claimed): a response with a non-2xx status ends the run with an
\* error: its body is not scanned, the handler is not invoked for it and no
\* request follows.
C10_Non2xxFatal ==
    status = "non2xx" =>
        /\ pc = "done"
        /\ ret \notin {"running", "nil"}
        /\ Len(delivered) = requests[Len(requests)].ndeliv

----------------------------------------------------------------------------
\* Properties of the decoders

\* The discriminator of the payload is present, and the payload decodes.
WellFormed(p, discriminator) ==
    /\ p.valid
    /\ p.bad = {}
    /\ discriminator \in p.present

\* C11 (as claimed): for a discriminator the decoder's table does not hold,
\* "unknown" included, UnmarshalEffect / UnmarshalOperation return a record
\* of the unknown variant and no error.
C11_UnknownVariant ==
    /\ (/\ pc = "decoded"
        /\ family = "Effect"
        /\ WellFormed(decIn, "type")
        /\ EffectTypeOf(decIn) \notin DOMAIN EffectTable)
       => (decOut.err = "nil" /\ decOut.variant = "UnknownEffect")
    /\ (/\ pc = "decoded"
        /\ family = "Operation"
        /\ WellFormed(decIn, "type_i")
        /\ OperationTypeName(TypeIOf(decIn)) \notin DOMAIN OperationTable)
       => (decOut.err = "nil" /\ decOut.variant = "UnknownOperation")

\* C12 (as claimed): for a discriminator of the table the decoder returns
\* the variant declared for it ("account_thresholds_updated" gives
\* AccountThresholdsUpdatedEffect, ManageOffer gives ManageOfferOperation)
\* with the fields that variant declares set from the payload, and the
\* variant is the one of no other discriminator of the family.
C12_DeclaredVariant ==
    /\ (/\ pc = "decoded"
        /\ family = "Effect"
        /\ WellFormed(decIn, "type")
        /\ EffectTypeOf(decIn) \in DOMAIN EffectTable)
       => /\ decOut.err = "nil"
          /\ decOut.fields = decIn.present \cap DeclaredFields(decOut.variant)
          /\ EffectTypeOf(decIn) = "account_thresholds_updated" =>
                 /\ decOut.variant = "AccountThresholdsUpdatedEffect"
                 /\ decIn.present
                        \cap {"low_threshold", "med_threshold", "high_threshold"}
                    \subseteq decOut.fields
          /\ \A t \in DOMAIN EffectTable :
                 t # EffectTypeOf(decIn) => EffectTable[t] # decOut.variant
    /\ (/\ pc = "decoded"
        /\ family = "Operation"
        /\ WellFormed(decIn, "type_i")
        /\ OperationTypeName(TypeIOf(decIn)) \in DOMAIN OperationTable)
       => /\ decOut.err = "nil"
          /\ decOut.fields = decIn.present \cap DeclaredFields(decOut.variant)
          /\ OperationTypeName(TypeIOf(decIn)) = "ManageOffer" =>
                 decOut.variant = "ManageOfferOperation"
          /\ \A t \in DOMAIN OperationTable :
                 t # OperationTypeName(TypeIOf(decIn))
                     => OperationTable[t] # decOut.variant

----------------------------------------------------------------------------
\* Properties of StreamAllEffects / StreamAllOperations

\* The payload is no JSON, or a field of it has the wrong shape.
FailsStructurally(p) == ~p.valid \/ p.bad # {}

\* C13: when the data of a frame fails structural decoding, the run ends
\* with the error that wraps the decoder's: the user's handler is not called
\* for that record (it was called for each one before), the frame is the
\* last one handled and no request follows it.
C13_DecodeFailure ==
    \A j \in 1..Len(delivered) :
        FailsStructurally(PayloadFor(delivered[j])) =>
            /\ pc = "done"
            /\ ret = "UnmarshalDataErr"
            /\ decOut.err \in {"UnmarshalEffectErr", "UnmarshalOperationErr"}
            /\ j = Len(delivered)
            /\ Len(userCalls) = j - 1
            /\ requests[Len(requests)].ndeliv < j

\* C13 witness: after a reconnect, the second record handled is JSON with a
\* field of the wrong shape, and the run has ended on it.
C13_Witness ==
    /\ pc = "done"
    /\ ret = "UnmarshalDataErr"
    /\ Len(requests) = 2
    /\ Len(delivered) = 2
    /\ Len(userCalls) = 1
    /\ decIn.valid
    /\ decIn.bad # {}

----------------------------------------------------------------------------
\* Properties of stream: frames, cancellation and connections

\* C14 (as claimed): a frame parseEvent rejects is skipped: the run's next
\* step goes for the next frame of the same connection, and what the run
\* would resume from is left as it is.
C14_MalformedFrameSkipped ==
    [][ ( /\ pc = "check"
          /\ frame.kind = "bad"
          /\ status = "2xx"
          /\ ~cancelled
          /\ pc' # pc ) =>
            /\ pc' = "scan"
            /\ position' = position
            /\ objectBytes' = objectBytes
            /\ query' = query ]_vars

\* C15 (as claimed): the handler is invoked only on "message" frames with
\* non-empty data: no data handed to it is empty, and a zero-length frame
\* or a frame with another label does not get to the call.
C15_HandlerOnlyForData ==
    /\ \A j \in 1..Len(delivered) : delivered[j].kind # "empty"
    /\ pc = "handle" => frame.kind = "message"

\* C16 (as claimed): the run looks at ctx before it pulls a frame: when ctx
\* is cancelled and the run is about to call scanner.Scan(), its next step
\* is to return nil.
C16_CancelBeforePull ==
    [][ (cancelled /\ pc = "scan" /\ pc' # pc) =>
            (pc' = "done" /\ ret' = "nil") ]_vars

\* C17 (as claimed): once ctx is cancelled on a connection, at most one more
\* record is delivered and no request is issued: a stream that ends after
\* the cancellation ends the run.
C17_CancelBoundsWork ==
    [][ (cancelled /\ status = "2xx" /\ Len(requests) >= 1) =>
            /\ requests' = requests
            /\ Len(delivered') <= cancelAt.ndeliv + 1
            /\ (pc = "end" /\ pc' # pc) => pc' = "done" ]_vars

\* C18 (as claimed): at most one response body is open at any time.
C18_OneBodyOpen == openBodies <= 1

\* C19: when the body ends cleanly or with an unexpected EOF and the record
\* handled last has an empty paging_token, the run's next step returns a
\* resumption error and no request is issued, whatever position the start
\* cursor or earlier records gave.
C19_EmptyTokenFatal ==
    [][ ( /\ pc = "end"
          /\ scanErr \in {"nil", "ErrUnexpectedEOF"}
          /\ Len(delivered) >= 1
          /\ delivered[Len(delivered)].kind = "obj"
          /\ delivered[Len(delivered)].pt = 0
          /\ pc' # pc ) =>
            /\ pc' = "done"
            /\ ret' \in ResumeErrors
            /\ requests' = requests
            /\ query' = query ]_vars

\* C19 witness: the run reconnected from the token of its first record, and
\* ended with the resumption error on a second record without a token.
C19_Witness ==
    /\ pc = "done"
    /\ ret = "NoPagingTokenErr"
    /\ Len(requests) = 2
    /\ Len(delivered) = 2
    /\ delivered[1].pt # 0
    /\ delivered[2].kind = "obj"
    /\ delivered[2].pt = 0
    /\ requests[2].has
    /\ requests[2].val = delivered[1].pt

\* C20 (as claimed): a connection reset while the body is read counts as the
\* end of the stream: with a record handled on the connection whose token is
\* the current position, the run's next step goes for a new request at it.
C20_ResetIsExhaustion ==
    [][ ( /\ pc = "end"
          /\ scanErr = "ECONNRESET"
          /\ status = "2xx"
          /\ position # 0
          /\ PagingTokenOf(objectBytes) = [err |-> FALSE, pt |-> position]
          /\ pc' # pc ) =>
            /\ pc' = "connect"
            /\ query' = [has |-> TRUE, val |-> position] ]_vars

----------------------------------------------------------------------------
\* Properties of stream: the cursor parameter, progress and bodies

\* C21 (as claimed): a request carries the cursor parameter exactly when
\* the position it is sent from is non-empty; a run started without a cursor
\* or with the empty string as cursor sends its first request without one.
C21_CursorIffPosition ==
    \A j \in 1..Len(requests) : requests[j].has <=> requests[j].val # 0

\* C23: a run never reconnects without progress: on the connection before
\* each request after the first a handler call returned nil, and the record
\* handled last on it is JSON with a non-empty paging_token; a handler error
\* is followed by no request; so the requests are at most one more than the
\* records handled without error.
C23_ProgressBetweenRequests ==
    /\ \A j \in 2..Len(requests) :
           /\ requests[j].ndeliv > requests[j - 1].ndeliv
           /\ delivered[requests[j].ndeliv].kind = "obj"
           /\ delivered[requests[j].ndeliv].pt # 0
    /\ (hres \in HandlerErrors /\ requests # <<>>) =>
           /\ pc = "done"
           /\ requests[Len(requests)].ndeliv < Len(delivered)
    /\ Len(requests) <=
           1 + Len(delivered) - (IF hres \in HandlerErrors THEN 1 ELSE 0)

\* C23 witness: three requests, one more record handled before each of the
\* two reconnects.
C23_Witness ==
    /\ Len(requests) = 3
    /\ requests[1].ndeliv = 0
    /\ requests[2].ndeliv = 1
    /\ requests[3].ndeliv = 2
    /\ hres = "nil"

\* C24: when stream has returned, by whatever path, no response body of
\* the run is left open.
C24_BodiesClosedOnReturn == pc = "done" => openBodies = 0

\* C24 witness: the run returned a handler's error on its second
\* connection, with two bodies opened before.
C24_Witness ==
    /\ pc = "done"
    /\ ret \in HandlerErrors
    /\ Len(requests) = 2
    /\ requests[1].ok
    /\ requests[2].ok
    /\ openBodies = 0

----------------------------------------------------------------------------
\* Properties of the decoders: payloads without a discriminator

\* C25 (as claimed): a JSON object without the discriminator field of its
\* family is not decoded as a known variant: UnmarshalEffect without "type"
\* and UnmarshalOperation without "type_i" return an error or the unknown
\* variant.
C25_MissingDiscriminator ==
    /\ (/\ pc = "decoded"
        /\ family = "Effect"
        /\ decIn.valid
        /\ decIn.bad = {}
        /\ "type" \notin decIn.present)
       => (decOut.err # "nil" \/ decOut.variant = "UnknownEffect")
    /\ (/\ pc = "decoded"
        /\ family = "Operation"
        /\ decIn.valid
        /\ decIn.bad = {}
        /\ "type_i" \notin decIn.present)
       => (decOut.err # "nil" \/ decOut.variant = "UnknownOperation")

----------------------------------------------------------------------------
\* Properties of the server-side resources

\* The collection a resource of the kind is listed in.
OwnCollection(kind) ==
    CASE kind = "effect" -> "/effects"
      [] kind = "operation" -> "/operations"
      [] OTHER -> "/transactions"

\* C26 (as claimed): Populate builds Succeeds and Precedes against the
\* resource's own collection with its own paging token as cursor, desc for
\* Succeeds and asc for Precedes; populateType sets TypeI to the row's code
\* and Type to its name in TypeNames, "unknown" for a code not in the table.
C26_NavigationLinks ==
    pc = "populated" =>
        /\ resource.PT = row.pt
        /\ resource.Succeeds =
               [path |-> OwnCollection(row.kind), order |-> "desc",
                cursor |-> row.pt]
        /\ resource.Precedes =
               [path |-> OwnCollection(row.kind), order |-> "asc",
                cursor |-> row.pt]
        /\ row.kind = "effect" =>
               /\ resource.TypeI = row.type
               /\ resource.Type = IF row.type \in DOMAIN EffectTypeNames
                                  THEN EffectTypeNames[row.type] ELSE "unknown"
        /\ row.kind = "operation" =>
               /\ resource.TypeI = row.type
               /\ resource.Type = IF row.type \in DOMAIN OperationTypeNames
                                  THEN OperationTypeNames[row.type]
                                  ELSE "unknown"

----------------------------------------------------------------------------
\* Properties of concurrent runs

\* C22: two concurrent runs on one Client are independent under every
\* interleaving: each run sends its requests to its own collection under
\* the fixed URL, the first without a cursor and each later one with the
\* token of the record it handled last itself; the records it handles are
\* those of its own feed, in order; and it returns nil only when its own
\* ctx was cancelled.
C22_RunsIndependent ==
    \A r \in TwoRuns :
        LET s == runs[r] IN
        /\ \A j \in 1..Len(s.requests) :
               /\ s.requests[j].url = [slash |-> FALSE, path |-> Collection(r)]
               /\ IF j = 1
                  THEN ~s.requests[j].has /\ s.requests[j].ndeliv = 0
                  ELSE /\ s.requests[j].has
                       /\ s.requests[j].ndeliv >= 1
                       /\ s.requests[j].val =
                              s.delivered[s.requests[j].ndeliv].pt
        /\ Len(s.delivered) <= MaxTwoFeed
        /\ \A j \in 1..Len(s.delivered) :
               j <= MaxTwoFeed => s.delivered[j] = TwoFeed(r)[j]
        /\ s.ret = "nil" => s.cancelled

\* C22 witness: the Client's URL had a trailing slash; the run on effects
\* was cancelled and returned nil on its second connection, while the run
\* on operations, not cancelled, handled both its records over two
\* connections and goes on.
C22_Witness ==
    /\ client.done
    /\ Len(runs["Effect"].requests) = 2
    /\ Len(runs["Effect"].delivered) = 1
    /\ runs["Effect"].cancelled
    /\ runs["Effect"].ret = "nil"
    /\ Len(runs["Operation"].requests) = 2
    /\ Len(runs["Operation"].delivered) = 2
    /\ ~runs["Operation"].cancelled
    /\ runs["Operation"].pc = "scan"

====
